---- MODULE Spec2Model ----
(***************************************************************************)
(* The event routes of the Zoom event platform (routes/events.js) over the *)
(* Prisma store and the Zoom meeting service.                              *)
(*                                                                         *)
(* Every handler is an async function: between two awaits it runs alone,   *)
(* at an await another request may run.  One action of the model is one    *)
(* handler segment, ending at the store or Zoom call it awaits or at the   *)
(* response it sends.  A handler that responds frees its slot in the same  *)
(* step and leaves what it answered in resp, which the next step of any    *)
(* handler clears: resp is the response sent by the last step.             *)
(*                                                                         *)
(* All requests are made by one authenticated user; rows of other users    *)
(* are filtered out of every query by userId and are not represented.      *)
(* Times are milliseconds.                                                 *)
(*                                                                         *)
(* ZoomService.getAccessToken and its token cache are modelled on their    *)
(* own (SpecToken): the handlers see a Zoom call only as one that returns  *)
(* or throws.                                                              *)
(***************************************************************************)
EXTENDS Integers, FiniteSets, Sequences, TLC

VARIABLES
    tier,         \* req.user.subscriptionTier
    otherEvents,  \* rows of the user in the event table that no request addresses
    now,          \* the server clock, new Date()
    events,       \* the event table: id -> row or NoEvent
    attendees,    \* the attendee table: a set of rows
    remote,       \* the ids of the meetings Zoom holds
    nextId,       \* the id the store gives the next event row
    nextMeeting,  \* the id Zoom gives the next meeting
    req,          \* the requests in flight: slot -> locals of the handler
    resp,         \* the response sent by the last step, or NoResp
    left,         \* requests this run may still start
    accessToken,  \* zoomService.accessToken
    tokenExpiry,  \* zoomService.tokenExpiry
    calls,        \* the getAccessToken calls in flight: caller -> locals
    returned      \* what getAccessToken returned in the last step, or NoReturn

tokenVars == <<accessToken, tokenExpiry, calls, returned>>

vars == <<tier, otherEvents, now, events, attendees, remote, nextId, nextMeeting, req, resp,
          left, tokenVars>>

---------------------------------------------------------------------------
\* Bounds of the model.

MaxReq == 2      \* requests in flight at a time
MaxOps == 2      \* requests of a run of Spec
MaxCreates == 1  \* requests of a run of SpecCreate
MaxOther == 10   \* further event rows of the user
MaxFields == 2   \* fields carried by the body of an update
MaxCallers == 2  \* getAccessToken calls in flight at a time
MaxCalls == 3    \* getAccessToken calls of a run of SpecToken
MaxTicks == 7    \* steps of the clock in a run of SpecToken

---------------------------------------------------------------------------
\* Program constants.

Unlimited == -1

TrialMaxEvents == 3
TrialMaxAttendees == 12
TrialMaxDuration == 60
StandardMaxEvents == 10
StandardMaxAttendees == 250
StandardMaxDuration == 240
ProMaxAttendees == 500

MsPerMinute == 60000
MsPerSecond == 1000
MarginSeconds == 300

Tiers == {"TRIAL", "STANDARD", "PRO"}

SUBSCRIPTION_LIMITS(t) ==
    CASE t = "TRIAL" ->
           [maxEvents |-> TrialMaxEvents, maxAttendees |-> TrialMaxAttendees,
            maxDuration |-> TrialMaxDuration]
      [] t = "STANDARD" ->
           [maxEvents |-> StandardMaxEvents, maxAttendees |-> StandardMaxAttendees,
            maxDuration |-> StandardMaxDuration]
      [] t = "PRO" ->
           [maxEvents |-> Unlimited, maxAttendees |-> ProMaxAttendees,
            maxDuration |-> Unlimited]

---------------------------------------------------------------------------
\* Values.

Absent == -1          \* a numeric body field that the request does not carry
Null == <<>>          \* a null column
NoEvent == [none |-> TRUE]
NoMeeting == [none |-> TRUE]
NoBody == [none |-> TRUE]

Hour == 60 * MsPerMinute
FractionMs == MsPerMinute \div 5      \* 0.2 minute

Reqs == 1..MaxReq
EventIds == 1..(1 + MaxOps + MaxCreates)
Emails == {"a", "b", "c"}

\* Mutant of CeilMinutes: the minutes are rounded down.
CeilMinutes_Floor(ms) == ms \div MsPerMinute

\* Math.ceil(ms / (1000 * 60)), also for a negative difference.
CeilMinutes(ms) == -((-ms) \div MsPerMinute)

\* What zoomService.createMeeting returns for the meeting Zoom numbered m.
Meeting(m) ==
    [id |-> m, join_url |-> <<"join", m>>, password |-> <<"pw", m>>,
     start_url |-> <<"start", m>>]

IdleReq ==
    [pc |-> "idle", id |-> 0, body |-> NoBody, ev |-> NoEvent, count |-> Absent,
     zoomMeeting |-> NoMeeting, zoomCall |-> "none", sent |-> NoBody,
     storeCall |-> "none"]

NoResp ==
    [op |-> "none", status |-> 0, error |-> "", limit |-> Absent, value |-> Absent,
     req |-> IdleReq, event |-> NoEvent, zoomMeeting |-> Null]

\* The callers of getAccessToken, and a call that is not in flight.
Callers == 1..MaxCallers
IdleCall == [pc |-> "idle", token |-> Null]
NoReturn == [none |-> TRUE]

EventRows(id) == {a \in attendees : a.eventId = id}

\* prisma.event.count({ where: { userId } })
EventCount == otherEvents + Cardinality({i \in EventIds : events[i] # NoEvent})

---------------------------------------------------------------------------
\* The state at the start of a run: the user has one event that was created
\* with a Zoom meeting and a capacity of two, and one registered attendee.

PreEvent ==
    [title |-> "t0", description |-> "d0", startTime |-> Hour, endTime |-> 2 * Hour,
     maxAttendees |-> 2, currentAttendees |-> 1,
     zoomMeetingId |-> 1, zoomMeetingUrl |-> Meeting(1).join_url,
     zoomPassword |-> Meeting(1).password, zoomHostKey |-> Meeting(1).start_url]

Store0 ==
    /\ now = 0
    /\ events = [i \in EventIds |-> IF i = 1 THEN PreEvent ELSE NoEvent]
    /\ attendees = {[email |-> "a", eventId |-> 1, joinUrl |-> Meeting(1).join_url]}
    /\ remote = {1}
    /\ nextId = 2
    /\ nextMeeting = 2
    /\ req = [r \in Reqs |-> IdleReq]
    /\ resp = NoResp
    /\ accessToken = Null
    /\ tokenExpiry = 0
    /\ calls = [c \in Callers |-> IdleCall]
    /\ returned = NoReturn

Init ==
    /\ tier \in Tiers
    /\ otherEvents = 0
    /\ left = MaxOps
    /\ Store0

\* The runs of SpecCreate: one tier, any number of further events, create requests.
InitCreate ==
    /\ tier \in Tiers
    /\ otherEvents \in 0..MaxOther
    /\ left = MaxCreates
    /\ Store0

\* A handler segment that ends at an await: the locals it keeps.
Await(r, locals) ==
    /\ req' = [req EXCEPT ![r] = locals]
    /\ resp' = NoResp

\* res.status(status).json(...): the handler is over.
Respond(r, locals, op, status, error, limit, value, event, zoomMeeting) ==
    /\ resp' = [op |-> op, status |-> status, error |-> error, limit |-> limit,
                value |-> value, req |-> locals, event |-> event,
                zoomMeeting |-> zoomMeeting]
    /\ req' = [req EXCEPT ![r] = IdleReq]

\* The locals of a handler whose store write succeeded, and threw.
Wrote(r) == [req[r] EXCEPT !.storeCall = "ok"]
Threw(r) == [req[r] EXCEPT !.storeCall = "threw"]

\* A request arrives and takes the first free slot.
Start(r) ==
    /\ req[r].pc = "idle"
    /\ \A q \in 1..(r - 1) : req[q].pc # "idle"
    /\ left > 0
    /\ left' = left - 1

---------------------------------------------------------------------------
\* POST /api/events

\* The bodies of the create requests of a user lie at the limits of the user's
\* tier: maxAttendees absent, at the maximum and one above; a duration of zero, of
\* the cap, of the cap and a fraction of a minute, and of the cap and a minute
\* (for PRO, which has no cap, around the longest cap of the other tiers); a start
\* at the present and one in the future.
AttendeeInputs(limits) == {Absent, limits.maxAttendees, limits.maxAttendees + 1}

DurationInputs(limits) ==
    LET cap == IF limits.maxDuration = Unlimited THEN StandardMaxDuration
               ELSE limits.maxDuration
    IN  {0, cap * MsPerMinute, cap * MsPerMinute + FractionMs, (cap + 1) * MsPerMinute}

StartInputs == {0, Hour}

InvalidCreateBody ==
    [valid |-> FALSE, title |-> "", description |-> "", startTime |-> Absent,
     endTime |-> Absent, maxAttendees |-> Absent, createZoomMeeting |-> TRUE]

CreateBodies(limits) ==
    {InvalidCreateBody} \cup
    {[valid |-> TRUE, title |-> "t0", description |-> "d0", startTime |-> s,
      endTime |-> s + d, maxAttendees |-> m, createZoomMeeting |-> z] :
        s \in StartInputs, d \in DurationInputs(limits), m \in AttendeeInputs(limits),
        z \in BOOLEAN}

\* Mutant of AttendeeLimit: no default when the body carries no maxAttendees.
AttendeeLimit_NoDefault(limits, body) == body.maxAttendees

\* const attendeeLimit = maxAttendees || limits.maxAttendees
AttendeeLimit(limits, body) ==
    IF body.maxAttendees = Absent THEN limits.maxAttendees ELSE body.maxAttendees

\* const duration = Math.ceil((new Date(endTime) - new Date(startTime)) / (1000 * 60))
Duration(body) == CeilMinutes(body.endTime - body.startTime)

Pass == [status |-> 0, error |-> "", limit |-> Absent, value |-> Absent]

\* Mutant of CreateDecision: the duration is checked before the event count.
CreateDecision_DurationFirst(limits, eventCount, body, clock) ==
    IF limits.maxDuration # Unlimited /\ Duration(body) > limits.maxDuration
    THEN [status |-> 403, error |-> "Duration limit exceeded",
          limit |-> limits.maxDuration, value |-> Duration(body)]
    ELSE IF limits.maxEvents # Unlimited /\ eventCount >= limits.maxEvents
    THEN [status |-> 403, error |-> "Event limit exceeded",
          limit |-> limits.maxEvents, value |-> eventCount]
    ELSE IF AttendeeLimit(limits, body) > limits.maxAttendees
    THEN [status |-> 403, error |-> "Attendee limit exceeded",
          limit |-> limits.maxAttendees, value |-> AttendeeLimit(limits, body)]
    ELSE IF body.startTime <= clock
    THEN [status |-> 400, error |-> "Invalid start time",
          limit |-> Absent, value |-> Absent]
    ELSE IF body.endTime <= body.startTime
    THEN [status |-> 400, error |-> "Invalid end time",
          limit |-> Absent, value |-> Absent]
    ELSE Pass

\* Mutant of CreateDecision: the event count may reach the limit and one more.
CreateDecision_CountOffByOne(limits, eventCount, body, clock) ==
    IF limits.maxEvents # Unlimited /\ eventCount > limits.maxEvents
    THEN [status |-> 403, error |-> "Event limit exceeded",
          limit |-> limits.maxEvents, value |-> eventCount]
    ELSE IF AttendeeLimit(limits, body) > limits.maxAttendees
    THEN [status |-> 403, error |-> "Attendee limit exceeded",
          limit |-> limits.maxAttendees, value |-> AttendeeLimit(limits, body)]
    ELSE IF limits.maxDuration # Unlimited /\ Duration(body) > limits.maxDuration
    THEN [status |-> 403, error |-> "Duration limit exceeded",
          limit |-> limits.maxDuration, value |-> Duration(body)]
    ELSE IF body.startTime <= clock
    THEN [status |-> 400, error |-> "Invalid start time",
          limit |-> Absent, value |-> Absent]
    ELSE IF body.endTime <= body.startTime
    THEN [status |-> 400, error |-> "Invalid end time",
          limit |-> Absent, value |-> Absent]
    ELSE Pass

\* The limit and validity checks of the create handler, in the order of the code;
\* eventCount is what prisma.event.count returned (not read when maxEvents is -1).
CreateDecision(limits, eventCount, body, clock) ==
    IF limits.maxEvents # Unlimited /\ eventCount >= limits.maxEvents
    THEN [status |-> 403, error |-> "Event limit exceeded",
          limit |-> limits.maxEvents, value |-> eventCount]
    ELSE IF AttendeeLimit(limits, body) > limits.maxAttendees
    THEN [status |-> 403, error |-> "Attendee limit exceeded",
          limit |-> limits.maxAttendees, value |-> AttendeeLimit(limits, body)]
    ELSE IF limits.maxDuration # Unlimited /\ Duration(body) > limits.maxDuration
    THEN [status |-> 403, error |-> "Duration limit exceeded",
          limit |-> limits.maxDuration, value |-> Duration(body)]
    ELSE IF body.startTime <= clock
    THEN [status |-> 400, error |-> "Invalid start time",
          limit |-> Absent, value |-> Absent]
    ELSE IF body.endTime <= body.startTime
    THEN [status |-> 400, error |-> "Invalid end time",
          limit |-> Absent, value |-> Absent]
    ELSE Pass

\* Mutant of CreateCheck: the Zoom meeting is created before the checks.
CreateCheck_MeetingFirst(r, body) ==
    /\ Start(r)
    /\ LET limits == SUBSCRIPTION_LIMITS(tier)
           eventCount == IF limits.maxEvents # Unlimited THEN EventCount ELSE Absent
           d == CreateDecision(limits, eventCount, body, now)
           locals == [IdleReq EXCEPT !.body = body, !.count = eventCount]
       IN  IF ~body.valid
           THEN /\ req' = req
                /\ resp' = [NoResp EXCEPT !.op = "create", !.status = 400,
                                          !.error = "Validation failed",
                                          !.req = [IdleReq EXCEPT !.body = body]]
           ELSE IF d # Pass
           THEN /\ req' = req
                /\ resp' = [NoResp EXCEPT !.op = "create", !.status = d.status,
                                          !.error = d.error, !.limit = d.limit,
                                          !.value = d.value, !.req = locals]
           ELSE Await(r, [locals EXCEPT !.pc = IF body.createZoomMeeting
                                               THEN "c_zoom" ELSE "c_store"])
    /\ remote' = IF body.valid /\ body.createZoomMeeting
                 THEN remote \cup {nextMeeting} ELSE remote
    /\ nextMeeting' = IF body.valid /\ body.createZoomMeeting
                      THEN nextMeeting + 1 ELSE nextMeeting
    /\ UNCHANGED <<tier, otherEvents, now, tokenVars, events, attendees, nextId>>

\* From the arrival of the request to the first Zoom or store write it awaits:
\* express-validator, prisma.event.count, the checks.
CreateCheck(r, body) ==
    /\ Start(r)
    /\ LET limits == SUBSCRIPTION_LIMITS(tier)
           eventCount == IF limits.maxEvents # Unlimited THEN EventCount ELSE Absent
           d == CreateDecision(limits, eventCount, body, now)
           locals == [IdleReq EXCEPT !.body = body, !.count = eventCount]
       IN  IF ~body.valid
           THEN /\ req' = req
                /\ resp' = [NoResp EXCEPT !.op = "create", !.status = 400,
                                          !.error = "Validation failed",
                                          !.req = [IdleReq EXCEPT !.body = body]]
           ELSE IF d # Pass
           THEN /\ req' = req
                /\ resp' = [NoResp EXCEPT !.op = "create", !.status = d.status,
                                          !.error = d.error, !.limit = d.limit,
                                          !.value = d.value, !.req = locals]
           ELSE Await(r, [locals EXCEPT !.pc = IF body.createZoomMeeting
                                               THEN "c_zoom" ELSE "c_store"])
    /\ UNCHANGED <<tier, otherEvents, now, tokenVars, events, attendees, remote, nextId, nextMeeting>>

\* Mutant of CreateZoom: a Zoom failure ends the request with a 500.
CreateZoom_FailFatal(r) ==
    /\ req[r].pc = "c_zoom"
    /\ \E ok \in BOOLEAN :
         IF ok
         THEN /\ remote' = remote \cup {nextMeeting}
              /\ nextMeeting' = nextMeeting + 1
              /\ Await(r, [req[r] EXCEPT !.pc = "c_store", !.zoomCall = "ok",
                                         !.zoomMeeting = Meeting(nextMeeting)])
         ELSE /\ UNCHANGED <<remote, nextMeeting>>
              /\ Respond(r, [req[r] EXCEPT !.zoomCall = "threw"], "create", 500,
                         "Failed to create event", Absent, Absent, NoEvent, Null)
    /\ UNCHANGED <<tier, otherEvents, now, tokenVars, events, attendees, nextId, left>>

\* zoomMeeting = await zoomService.createMeeting(meetingData), inside try/catch.
CreateZoom(r) ==
    /\ req[r].pc = "c_zoom"
    /\ \E ok \in BOOLEAN :
         IF ok
         THEN /\ remote' = remote \cup {nextMeeting}
              /\ nextMeeting' = nextMeeting + 1
              /\ Await(r, [req[r] EXCEPT !.pc = "c_store", !.zoomCall = "ok",
                                         !.zoomMeeting = Meeting(nextMeeting)])
         ELSE /\ UNCHANGED <<remote, nextMeeting>>
              /\ Await(r, [req[r] EXCEPT !.pc = "c_store", !.zoomCall = "threw"])
    /\ UNCHANGED <<tier, otherEvents, now, tokenVars, events, attendees, nextId, left>>

\* zoomMeeting?.x : undefined (stored as null) when there is no meeting.
Opt(meeting, field, null) == IF meeting = NoMeeting THEN null ELSE meeting[field]

\* The row prisma.event.create writes.
NewEvent(limits, body, zoomMeeting) ==
    [title |-> body.title, description |-> body.description,
     startTime |-> body.startTime, endTime |-> body.endTime,
     maxAttendees |-> AttendeeLimit(limits, body), currentAttendees |-> 0,
     zoomMeetingId |-> Opt(zoomMeeting, "id", 0),
     zoomMeetingUrl |-> Opt(zoomMeeting, "join_url", Null),
     zoomPassword |-> Opt(zoomMeeting, "password", Null),
     zoomHostKey |-> Opt(zoomMeeting, "start_url", Null)]

\* The zoomMeeting member of the 201 response.
MeetingInfo(zoomMeeting) ==
    IF zoomMeeting = NoMeeting THEN Null
    ELSE <<zoomMeeting.id, zoomMeeting.join_url, zoomMeeting.start_url,
           zoomMeeting.password>>

\* Mutant of CreateStore: a store error is answered like a success.
CreateStore_Masked(r) ==
    /\ req[r].pc = "c_store"
    /\ \E ok \in BOOLEAN :
         IF ok
         THEN LET event == NewEvent(SUBSCRIPTION_LIMITS(tier), req[r].body,
                                    req[r].zoomMeeting)
              IN  /\ events' = [events EXCEPT ![nextId] = event]
                  /\ nextId' = nextId + 1
                  /\ Respond(r, Wrote(r), "create", 201, "", Absent, nextId, event,
                             MeetingInfo(req[r].zoomMeeting))
         ELSE /\ UNCHANGED <<events, nextId>>
              /\ Respond(r, Threw(r), "create", 201, "", Absent, Absent,
                         NoEvent, MeetingInfo(req[r].zoomMeeting))
    /\ UNCHANGED <<tier, otherEvents, now, tokenVars, attendees, remote, nextMeeting, left>>

\* await prisma.event.create(...) and the response; a store error is a 500.
CreateStore(r) ==
    /\ req[r].pc = "c_store"
    /\ \E ok \in BOOLEAN :
         IF ok
         THEN LET event == NewEvent(SUBSCRIPTION_LIMITS(tier), req[r].body,
                                    req[r].zoomMeeting)
              IN  /\ events' = [events EXCEPT ![nextId] = event]
                  /\ nextId' = nextId + 1
                  /\ Respond(r, Wrote(r), "create", 201, "", Absent, nextId, event,
                             MeetingInfo(req[r].zoomMeeting))
         ELSE /\ UNCHANGED <<events, nextId>>
              /\ Respond(r, Threw(r), "create", 500, "Failed to create event", Absent, Absent,
                         NoEvent, Null)
    /\ UNCHANGED <<tier, otherEvents, now, tokenVars, attendees, remote, nextMeeting, left>>

---------------------------------------------------------------------------
\* PUT /api/events/:id

\* The ids a request may name: those given out so far and one that is unknown.
TargetIds == 1..nextId

FieldCount(b) ==
    Cardinality({f \in {"title", "description"} : b[f] # ""}) +
    Cardinality({f \in {"startTime", "endTime", "maxAttendees", "currentAttendees"} :
                   b[f] # Absent})

InvalidUpdateBody ==
    [valid |-> FALSE, title |-> "", description |-> "", startTime |-> Absent,
     endTime |-> Absent, maxAttendees |-> Absent, currentAttendees |-> Absent]

UpdateBodies ==
    {InvalidUpdateBody} \cup
    {b \in [valid : {TRUE}, title : {"", "t1"}, description : {"", "d1"},
            startTime : {Absent, 3 * Hour}, endTime : {Absent, 4 * Hour},
            maxAttendees : {Absent, 1, ProMaxAttendees + 1},
            currentAttendees : {Absent, 3}] :
        FieldCount(b) <= MaxFields}

\* The condition under which the handler calls zoomService.updateMeeting.
ZoomUpdateWanted(existingEvent, updateData) ==
    /\ existingEvent.zoomMeetingId # 0
    /\ \/ updateData.title # ""
       \/ updateData.startTime # Absent
       \/ updateData.endTime # Absent
       \/ updateData.description # ""

\* zoomUpdateData, the body of the PATCH sent to Zoom.
ZoomUpdateData(updateData) ==
    [topic |-> updateData.title,
     agenda |-> updateData.description,
     start_time |-> updateData.startTime,
     duration |-> IF updateData.endTime # Absent /\ updateData.startTime # Absent
                  THEN CeilMinutes(updateData.endTime - updateData.startTime)
                  ELSE Absent]

\* prisma.event.update({ where: { id }, data }): the fields of the body overwrite
\* those of the row.
Merge(row, data) ==
    [row EXCEPT
       !.title = IF data.title # "" THEN data.title ELSE @,
       !.description = IF data.description # "" THEN data.description ELSE @,
       !.startTime = IF data.startTime # Absent THEN data.startTime ELSE @,
       !.endTime = IF data.endTime # Absent THEN data.endTime ELSE @,
       !.maxAttendees = IF data.maxAttendees # Absent THEN data.maxAttendees ELSE @,
       !.currentAttendees = IF data.currentAttendees # Absent
                            THEN data.currentAttendees ELSE @]

\* express-validator and prisma.event.findUnique({ where: { id, userId } }).
UpdateFind(r, id, body) ==
    /\ Start(r)
    /\ LET existingEvent == events[id]
           locals == [IdleReq EXCEPT !.id = id, !.body = body, !.ev = existingEvent]
       IN  IF ~body.valid
           THEN /\ req' = req
                /\ resp' = [NoResp EXCEPT !.op = "update", !.status = 400,
                                          !.error = "Validation failed",
                                          !.req = [IdleReq EXCEPT !.id = id, !.body = body]]
           ELSE IF existingEvent = NoEvent
           THEN /\ req' = req
                /\ resp' = [NoResp EXCEPT !.op = "update", !.status = 404,
                                          !.error = "Event not found", !.req = locals]
           ELSE Await(r, [locals EXCEPT !.pc = IF ZoomUpdateWanted(existingEvent, body)
                                               THEN "u_zoom" ELSE "u_store"])
    /\ UNCHANGED <<tier, otherEvents, now, tokenVars, events, attendees, remote, nextId, nextMeeting>>

\* Mutant of UpdateZoom: a Zoom failure ends the request with a 500.
UpdateZoom_FailFatal(r) ==
    /\ req[r].pc = "u_zoom"
    /\ \E ok \in BOOLEAN :
         /\ ok => req[r].ev.zoomMeetingId \in remote
         /\ IF ok
            THEN Await(r, [req[r] EXCEPT !.pc = "u_store", !.zoomCall = "ok",
                                        !.sent = ZoomUpdateData(req[r].body)])
            ELSE Respond(r, [req[r] EXCEPT !.zoomCall = "threw",
                                          !.sent = ZoomUpdateData(req[r].body)],
                         "update", 500, "Failed to update event", Absent, Absent,
                         NoEvent, Null)
    /\ UNCHANGED <<tier, otherEvents, now, tokenVars, events, attendees, remote, nextId,
                   nextMeeting, left>>

\* await zoomService.updateMeeting(...), inside try/catch; Zoom refuses a meeting
\* it does not hold.
UpdateZoom(r) ==
    /\ req[r].pc = "u_zoom"
    /\ \E ok \in BOOLEAN :
         /\ ok => req[r].ev.zoomMeetingId \in remote
         /\ Await(r, [req[r] EXCEPT !.pc = "u_store",
                                    !.zoomCall = IF ok THEN "ok" ELSE "threw",
                                    !.sent = ZoomUpdateData(req[r].body)])
    /\ UNCHANGED <<tier, otherEvents, now, tokenVars, events, attendees, remote, nextId,
                   nextMeeting, left>>

\* await prisma.event.update(...) and the response; the store throws when the row
\* is gone, and a store error is a 500.
UpdateStore(r) ==
    /\ req[r].pc = "u_store"
    /\ \E ok \in BOOLEAN :
         /\ ok => events[req[r].id] # NoEvent
         /\ IF ok
            THEN LET updatedEvent == Merge(events[req[r].id], req[r].body)
                 IN  /\ events' = [events EXCEPT ![req[r].id] = updatedEvent]
                     /\ Respond(r, Wrote(r), "update", 200, "", Absent, Absent, updatedEvent, Null)
            ELSE /\ UNCHANGED events
                 /\ Respond(r, Threw(r), "update", 500, "Failed to update event", Absent, Absent,
                            NoEvent, Null)
    /\ UNCHANGED <<tier, otherEvents, now, tokenVars, attendees, remote, nextId, nextMeeting, left>>

---------------------------------------------------------------------------
\* DELETE /api/events/:id

\* prisma.event.findUnique({ where: { id, userId } })
DeleteFind(r, id) ==
    /\ Start(r)
    /\ LET event == events[id]
           locals == [IdleReq EXCEPT !.id = id, !.ev = event]
       IN  IF event = NoEvent
           THEN /\ req' = req
                /\ resp' = [NoResp EXCEPT !.op = "delete", !.status = 404,
                                          !.error = "Event not found", !.req = locals]
           ELSE Await(r, [locals EXCEPT !.pc = IF event.zoomMeetingId # 0
                                               THEN "d_zoom" ELSE "d_store"])
    /\ UNCHANGED <<tier, otherEvents, now, tokenVars, events, attendees, remote, nextId, nextMeeting>>

\* Mutant of DeleteZoom: a Zoom failure ends the request with a 500.
DeleteZoom_FailFatal(r) ==
    /\ req[r].pc = "d_zoom"
    /\ \E ok \in BOOLEAN :
         /\ ok => req[r].ev.zoomMeetingId \in remote
         /\ remote' = IF ok THEN remote \ {req[r].ev.zoomMeetingId} ELSE remote
         /\ IF ok
            THEN Await(r, [req[r] EXCEPT !.pc = "d_store", !.zoomCall = "ok"])
            ELSE Respond(r, [req[r] EXCEPT !.zoomCall = "threw"], "delete", 500,
                         "Failed to delete event", Absent, Absent, NoEvent, Null)
    /\ UNCHANGED <<tier, otherEvents, now, tokenVars, events, attendees, nextId, nextMeeting, left>>

\* await zoomService.deleteMeeting(event.zoomMeetingId), inside try/catch.
DeleteZoom(r) ==
    /\ req[r].pc = "d_zoom"
    /\ \E ok \in BOOLEAN :
         /\ ok => req[r].ev.zoomMeetingId \in remote
         /\ remote' = IF ok THEN remote \ {req[r].ev.zoomMeetingId} ELSE remote
         /\ Await(r, [req[r] EXCEPT !.pc = "d_store",
                                    !.zoomCall = IF ok THEN "ok" ELSE "threw"])
    /\ UNCHANGED <<tier, otherEvents, now, tokenVars, events, attendees, nextId, nextMeeting, left>>

\* The attendee rows that go with an event row when it is deleted.
CascadeAttendees(id) == {a \in attendees : a.eventId # id}

\* await prisma.event.delete({ where: { id } }) and the response.
DeleteStore(r) ==
    /\ req[r].pc = "d_store"
    /\ \E ok \in BOOLEAN :
         /\ ok => events[req[r].id] # NoEvent
         /\ IF ok
            THEN /\ events' = [events EXCEPT ![req[r].id] = NoEvent]
                 /\ attendees' = CascadeAttendees(req[r].id)
                 /\ Respond(r, Wrote(r), "delete", 200, "", Absent, Absent, NoEvent, Null)
            ELSE /\ UNCHANGED <<events, attendees>>
                 /\ Respond(r, Threw(r), "delete", 500, "Failed to delete event", Absent, Absent,
                            NoEvent, Null)
    /\ UNCHANGED <<tier, otherEvents, now, tokenVars, remote, nextId, nextMeeting, left>>

---------------------------------------------------------------------------
\* POST /api/events/:id/attendees

RegisterBodies == [valid : BOOLEAN, email : Emails]

\* Mutant of EventIsFull: an event at its capacity takes one more.
EventIsFull_Gt(count, event) == count > event.maxAttendees

\* if (event._count.attendees >= event.maxAttendees)
EventIsFull(count, event) == count >= event.maxAttendees

\* express-validator, prisma.event.findUnique with _count.attendees, and the
\* capacity check.
RegFind(r, id, body) ==
    /\ Start(r)
    /\ LET event == events[id]
           count == Cardinality(EventRows(id))
           locals == [IdleReq EXCEPT !.id = id, !.body = body, !.ev = event,
                                     !.count = IF event = NoEvent THEN Absent ELSE count]
       IN  IF ~body.valid
           THEN /\ req' = req
                /\ resp' = [NoResp EXCEPT !.op = "register", !.status = 400,
                                          !.error = "Validation failed",
                                          !.req = [IdleReq EXCEPT !.id = id, !.body = body]]
           ELSE IF event = NoEvent
           THEN /\ req' = req
                /\ resp' = [NoResp EXCEPT !.op = "register", !.status = 404,
                                          !.error = "Event not found", !.req = locals]
           ELSE IF EventIsFull(count, event)
           THEN /\ req' = req
                /\ resp' = [NoResp EXCEPT !.op = "register", !.status = 400,
                                          !.error = "Event is full",
                                          !.limit = event.maxAttendees, !.value = count,
                                          !.req = locals]
           ELSE Await(r, [locals EXCEPT !.pc = "a_dup"])
    /\ UNCHANGED <<tier, otherEvents, now, tokenVars, events, attendees, remote, nextId, nextMeeting>>

\* await prisma.attendee.findUnique({ where: { email_eventId } })
RegDup(r) ==
    /\ req[r].pc = "a_dup"
    /\ IF \E a \in attendees : a.email = req[r].body.email /\ a.eventId = req[r].id
       THEN Respond(r, req[r], "register", 400, "Already registered", Absent, Absent,
                    NoEvent, Null)
       ELSE Await(r, [req[r] EXCEPT !.pc = "a_create"])
    /\ UNCHANGED <<tier, otherEvents, now, tokenVars, events, attendees, remote, nextId,
                   nextMeeting, left>>

\* await prisma.attendee.create(...): the store throws on a second row with the
\* same (email, eventId) and on a row for an event that is gone.
RegCreate(r) ==
    /\ req[r].pc = "a_create"
    /\ \E ok \in BOOLEAN :
         /\ ok => /\ events[req[r].id] # NoEvent
                  /\ ~\E a \in attendees :
                        a.email = req[r].body.email /\ a.eventId = req[r].id
         /\ IF ok
            THEN /\ attendees' = attendees \cup
                       {[email |-> req[r].body.email, eventId |-> req[r].id,
                         joinUrl |-> req[r].ev.zoomMeetingUrl]}
                 /\ Await(r, [req[r] EXCEPT !.pc = "a_incr", !.storeCall = "ok"])
            ELSE /\ UNCHANGED attendees
                 /\ Respond(r, Threw(r), "register", 500, "Failed to register attendee", Absent,
                            Absent, NoEvent, Null)
    /\ UNCHANGED <<tier, otherEvents, now, tokenVars, events, remote, nextId, nextMeeting, left>>

\* await prisma.event.update({ data: { currentAttendees: { increment: 1 } } }) and
\* the response.
RegIncr(r) ==
    /\ req[r].pc = "a_incr"
    /\ \E ok \in BOOLEAN :
         /\ ok => events[req[r].id] # NoEvent
         /\ IF ok
            THEN /\ events' = [events EXCEPT ![req[r].id].currentAttendees = @ + 1]
                 /\ Respond(r, Wrote(r), "register", 201, "", Absent, Absent, NoEvent, Null)
            ELSE /\ UNCHANGED events
                 /\ Respond(r, Threw(r), "register", 500, "Failed to register attendee", Absent,
                            Absent, NoEvent, Null)
    /\ UNCHANGED <<tier, otherEvents, now, tokenVars, attendees, remote, nextId, nextMeeting, left>>

---------------------------------------------------------------------------
\* ZoomService.getAccessToken
\*
\* A token is written as the instant Zoom issued it and the lifetime Zoom gave
\* it, which is what decides when it expires.  The clock moves in steps of a
\* third of the margin.  A null tokenExpiry is 0: null > Date.now() is false.

TickMs == (MarginSeconds * MsPerSecond) \div 3

\* The expires_in of the responses of the token endpoint, in seconds.
ExpiresIn == {2 * MarginSeconds, 3 * MarginSeconds}

\* The instant at which Zoom stops accepting the token.
ActualExpiry(token) == token.at + token.expires_in * MsPerSecond

\* if (this.accessToken && this.tokenExpiry > Date.now())
CacheValid == accessToken # Null /\ tokenExpiry > now

\* A call of getAccessToken up to its return from the cache or to the await of
\* axios.post.
GetAccessToken(c) ==
    /\ calls[c].pc = "idle"
    /\ \A d \in 1..(c - 1) : calls[d].pc # "idle"
    /\ left > 0
    /\ left' = left - 1
    /\ IF CacheValid
       THEN /\ returned' = [token |-> accessToken, cached |-> TRUE]
            /\ calls' = calls
       ELSE /\ returned' = NoReturn
            /\ calls' = [calls EXCEPT ![c].pc = "t_post"]
    /\ UNCHANGED <<tier, otherEvents, now, events, attendees, remote, nextId, nextMeeting,
                   req, resp, accessToken, tokenExpiry>>

\* The token endpoint answers the POST: it issues a token, or the request fails
\* and getAccessToken throws 'Failed to get Zoom access token'.
TokenEndpoint(c) ==
    /\ calls[c].pc = "t_post"
    /\ \/ \E e \in ExpiresIn :
            calls' = [calls EXCEPT ![c] = [pc |-> "t_resp",
                                           token |-> [at |-> now, expires_in |-> e]]]
       \/ calls' = [calls EXCEPT ![c] = IdleCall]
    /\ returned' = NoReturn
    /\ UNCHANGED <<tier, otherEvents, now, events, attendees, remote, nextId, nextMeeting,
                   req, resp, left, accessToken, tokenExpiry>>

\* The await of axios.post resolves: the token and its expiry are stored and the
\* token is returned.
TokenStore(c) ==
    /\ calls[c].pc = "t_resp"
    /\ accessToken' = calls[c].token
    /\ tokenExpiry' = now + (calls[c].token.expires_in - MarginSeconds) * MsPerSecond
    /\ returned' = [token |-> calls[c].token, cached |-> FALSE]
    /\ calls' = [calls EXCEPT ![c] = IdleCall]
    /\ UNCHANGED <<tier, otherEvents, now, events, attendees, remote, nextId, nextMeeting,
                   req, resp, left>>

\* Time passes.
Tick ==
    /\ now < MaxTicks * TickMs
    /\ now' = now + TickMs
    /\ returned' = NoReturn
    /\ UNCHANGED <<tier, otherEvents, events, attendees, remote, nextId, nextMeeting,
                   req, resp, left, accessToken, tokenExpiry, calls>>

\* The runs of SpecToken: calls of getAccessToken while time passes.
InitToken ==
    /\ tier = "PRO"
    /\ otherEvents = 0
    /\ left = MaxCalls
    /\ Store0

NextToken ==
    \/ \E c \in Callers : GetAccessToken(c)
    \/ \E c \in Callers : TokenEndpoint(c)
    \/ \E c \in Callers : TokenStore(c)
    \/ Tick

SpecToken == InitToken /\ [][NextToken]_vars

---------------------------------------------------------------------------
\* The create requests of a run of Spec.
SomeCreateBodies(limits) ==
    {b \in CreateBodies(limits) :
       b.valid => /\ b.maxAttendees \in {Absent, limits.maxAttendees + 1}
                  /\ b.endTime - b.startTime = Hour}

NextCreate ==
    \/ \E r \in Reqs, body \in CreateBodies(SUBSCRIPTION_LIMITS(tier)) :
         CreateCheck(r, body)
    \/ \E r \in Reqs : CreateZoom(r)
    \/ \E r \in Reqs : CreateStore(r)

Next ==
    \/ \E r \in Reqs, body \in SomeCreateBodies(SUBSCRIPTION_LIMITS(tier)) :
         CreateCheck(r, body)
    \/ \E r \in Reqs : CreateZoom(r)
    \/ \E r \in Reqs : CreateStore(r)
    \/ \E r \in Reqs, id \in TargetIds, body \in UpdateBodies : UpdateFind(r, id, body)
    \/ \E r \in Reqs : UpdateZoom(r)
    \/ \E r \in Reqs : UpdateStore(r)
    \/ \E r \in Reqs, id \in TargetIds : DeleteFind(r, id)
    \/ \E r \in Reqs : DeleteZoom(r)
    \/ \E r \in Reqs : DeleteStore(r)
    \/ \E r \in Reqs, id \in TargetIds, body \in RegisterBodies : RegFind(r, id, body)
    \/ \E r \in Reqs : RegDup(r)
    \/ \E r \in Reqs : RegCreate(r)
    \/ \E r \in Reqs : RegIncr(r)

Spec == Init /\ [][Next]_vars

SpecCreate == InitCreate /\ [][NextCreate]_vars

---------------------------------------------------------------------------
\* What the claims are stated over.

\* The response of the last step is that of a create request whose body passed
\* express-validator.
CreateAnswered == resp.op = "create" /\ resp.req.body.valid

\* Over the limits of the tier, for the request answered by the last step: the
\* event count is the one the handler read, the other two are those of the body.
RespLimits == SUBSCRIPTION_LIMITS(tier)
OverEvents == RespLimits.maxEvents # -1 /\ resp.req.count >= RespLimits.maxEvents
RespRequested ==
    IF resp.req.body.maxAttendees = Absent THEN RespLimits.maxAttendees
    ELSE resp.req.body.maxAttendees
OverAttendees == RespRequested > RespLimits.maxAttendees
RespMs == resp.req.body.endTime - resp.req.body.startTime
\* The least whole number of minutes that is no shorter than RespMs.
RespMinutes == CHOOSE n \in -1..1000 : n * 60000 >= RespMs /\ (n - 1) * 60000 < RespMs
OverDuration == RespLimits.maxDuration # -1 /\ RespMs > RespLimits.maxDuration * 60000

\* C1: of the three tier limits, the earliest violated one in the order event
\* count, attendee count, duration is the denial a create request gets.
C1_FirstFailingRuleWins ==
    CreateAnswered =>
      /\ OverEvents => resp.error = "Event limit exceeded"
      /\ ~OverEvents /\ OverAttendees => resp.error = "Attendee limit exceeded"
      /\ ~OverEvents /\ ~OverAttendees /\ OverDuration =>
           resp.error = "Duration limit exceeded"

\* A request over the event limit, the attendee limit and the duration cap at once
\* was answered.
C1_Witness ==
    /\ CreateAnswered /\ OverEvents /\ OverAttendees /\ OverDuration
    /\ resp.error = "Event limit exceeded"

\* C2: TRIAL (3) and STANDARD (10) deny a create with "Event limit exceeded",
\* limit and currentCount, exactly when the user's event count is at or above the
\* limit; PRO never denies on the event count.
C2_EventCountRule ==
    LET maxEvents == CASE tier = "TRIAL" -> 3 [] tier = "STANDARD" -> 10 [] OTHER -> -1
        denied == resp.error = "Event limit exceeded"
    IN  /\ CreateAnswered /\ resp.status \in {400, 403} =>
             IF tier = "PRO" THEN ~denied
             ELSE IF EventCount < maxEvents THEN ~denied
             ELSE denied /\ resp.limit = maxEvents /\ resp.value = EventCount
        /\ \A r \in Reqs :
             req[r].pc \in {"c_zoom", "c_store"} /\ tier # "PRO" =>
               req[r].count < maxEvents

\* STANDARD with ten events was denied.
C2_Witness ==
    /\ tier = "STANDARD" /\ CreateAnswered /\ EventCount = 10
    /\ resp.error = "Event limit exceeded" /\ resp.limit = 10 /\ resp.value = 10

\* C3: a create that asks for at most the tier's maxAttendees (12, 250, 500)
\* passes the attendee check, one that asks for more is denied with "Attendee limit
\* exceeded", limit and requested; the event a create persists has maxAttendees
\* within the tier's maximum, also when the body carries none.
C3_AttendeeRule ==
    LET maxAttendees ==
          CASE tier = "TRIAL" -> 12 [] tier = "STANDARD" -> 250 [] OTHER -> 500
        asked == resp.req.body.maxAttendees
        denied == resp.error = "Attendee limit exceeded"
    IN  CreateAnswered /\ ~OverEvents =>
          /\ asked <= maxAttendees => ~denied
          /\ asked > maxAttendees =>
               denied /\ resp.limit = maxAttendees /\ resp.value = asked
          /\ resp.status = 201 =>
               /\ events[resp.value] = resp.event
               /\ resp.event.maxAttendees <= maxAttendees
               /\ resp.event.maxAttendees = IF asked = Absent THEN maxAttendees ELSE asked

\* A create that asked for exactly the tier's maximum was persisted.
C3_Witness ==
    /\ CreateAnswered /\ resp.status = 201
    /\ resp.req.body.maxAttendees = RespLimits.maxAttendees
    /\ events[resp.value].maxAttendees = RespLimits.maxAttendees

\* C4: the duration compared with the cap is the difference of end and start in
\* minutes, rounded up; TRIAL (60) and STANDARD (240) allow a duration up to the
\* cap and deny a longer one, also one longer by a fraction of a minute, with
\* "Duration limit exceeded", the cap and the rounded-up duration; PRO denies none.
C4_DurationRule ==
    LET cap == CASE tier = "TRIAL" -> 60 [] tier = "STANDARD" -> 240 [] OTHER -> -1
        denied == resp.error = "Duration limit exceeded"
    IN  CreateAnswered /\ ~OverEvents /\ ~OverAttendees =>
          IF tier = "PRO" THEN ~denied
          ELSE IF RespMinutes <= cap THEN ~denied
          ELSE denied /\ resp.limit = cap /\ resp.value = RespMinutes

\* STANDARD was asked for 240.2 minutes and denied 241.
C4_Witness ==
    /\ tier = "STANDARD" /\ CreateAnswered
    /\ RespMs = 240 * 60000 + 12000
    /\ resp.error = "Duration limit exceeded" /\ resp.value = 241

\* C5: a create that passed the checks reaches the store write whether Zoom threw
\* or not; when the write succeeds the answer is 201 and the row is stored, with
\* null linkage and a null zoomMeeting after a Zoom failure, and with the
\* meeting's id, join URL, password and start URL and a zoomMeeting after a Zoom
\* success.
C5_CreateToleratesRemoteFailure ==
    resp.op = "create" /\ resp.req.zoomCall # "none" =>
      /\ resp.req.storeCall # "none"
      /\ resp.req.storeCall = "ok" =>
           /\ resp.status = 201
           /\ events[resp.value] = resp.event
           /\ IF resp.req.zoomCall = "threw"
              THEN /\ resp.event.zoomMeetingId = 0
                   /\ resp.event.zoomMeetingUrl = Null
                   /\ resp.event.zoomPassword = Null
                   /\ resp.event.zoomHostKey = Null
                   /\ resp.zoomMeeting = Null
              ELSE /\ resp.event.zoomMeetingId = resp.req.zoomMeeting.id
                   /\ resp.event.zoomMeetingUrl = resp.req.zoomMeeting.join_url
                   /\ resp.event.zoomPassword = resp.req.zoomMeeting.password
                   /\ resp.event.zoomHostKey = resp.req.zoomMeeting.start_url
                   /\ resp.zoomMeeting # Null

\* A create was answered 201 after Zoom threw, and its row is stored unlinked.
C5_Witness ==
    /\ resp.op = "create" /\ resp.req.zoomCall = "threw" /\ resp.status = 201
    /\ events[resp.value] # NoEvent /\ events[resp.value].zoomMeetingId = 0

\* C6: the delete of an event with a Zoom meeting attempts the Zoom deletion
\* before the store deletion, and attempts the store deletion whether Zoom threw
\* or not; when the store deletion succeeds the row is gone and the answer is 200.
C6_DeleteToleratesRemoteFailure ==
    resp.op = "delete" /\ resp.req.ev # NoEvent =>
      /\ resp.req.storeCall # "none"
      /\ resp.req.ev.zoomMeetingId # 0 => resp.req.zoomCall # "none"
      /\ resp.req.storeCall = "ok" =>
           resp.status = 200 /\ events[resp.req.id] = NoEvent

\* A linked event was deleted and answered 200 after Zoom threw.
C6_Witness ==
    /\ resp.op = "delete" /\ resp.req.ev # NoEvent /\ resp.req.ev.zoomMeetingId # 0
    /\ resp.req.zoomCall = "threw" /\ resp.status = 200
    /\ events[resp.req.id] = NoEvent

\* C7: registrations never take an event over its capacity: when a registration
\* is answered 201, the event has no more attendee rows than the maxAttendees the
\* handler read (of two concurrent registrations for the last seat one is denied).
C7_OneOfTwoRegistrationsSucceeds ==
    resp.op = "register" /\ resp.status = 201 =>
      Cardinality(EventRows(resp.req.id)) <= resp.req.ev.maxAttendees

\* C8: a registration that finds the event at its capacity is denied "Event is
\* full", also when its email is registered already; one that finds its
\* (email, eventId) registered is denied "Already registered"; neither denial
\* changes the attendee rows or the event rows.
C8_SequentialDenials ==
    [][/\ \A r \in Reqs :
            /\ req[r].pc = "idle" /\ req'[r].pc = "a_dup" =>
                 Cardinality(EventRows(req'[r].id)) < events[req'[r].id].maxAttendees
            /\ req[r].pc = "a_dup" /\ req'[r].pc = "a_create" =>
                 ~\E a \in attendees :
                    a.email = req[r].body.email /\ a.eventId = req[r].id
       /\ resp'.op = "register" /\ resp'.error = "Event is full" =>
            /\ Cardinality(EventRows(resp'.req.id)) >= events[resp'.req.id].maxAttendees
            /\ resp'.status = 400
            /\ UNCHANGED <<events, attendees>>
       /\ resp'.op = "register" /\ resp'.error = "Already registered" =>
            /\ \E a \in attendees :
                  a.email = resp'.req.body.email /\ a.eventId = resp'.req.id
            /\ resp'.status = 400
            /\ UNCHANGED <<events, attendees>>
      ]_vars

\* A registration was denied "Event is full" for an event at its capacity that
\* holds a row with its email.
C8_Witness ==
    /\ resp.op = "register" /\ resp.error = "Event is full"
    /\ Cardinality(EventRows(resp.req.id)) = events[resp.req.id].maxAttendees
    /\ \E a \in attendees : a.email = resp.req.body.email /\ a.eventId = resp.req.id

\* C9: every stored event has currentAttendees <= maxAttendees.
C9_CurrentWithinMax ==
    \A id \in EventIds :
      events[id] # NoEvent => events[id].currentAttendees <= events[id].maxAttendees

\* C10: a create that is answered with a denial (403) or a validation error
\* (400) has called neither Zoom nor a store write: the event rows, the attendee
\* rows and the Zoom meetings are as before; TRIAL with three events is denied
\* "Event limit exceeded" with limit 3 and currentCount 3.
C10_RejectedCreateHasNoEffect ==
    [][/\ resp'.op = "create" /\ resp'.status \in {400, 403} =>
            /\ UNCHANGED <<events, attendees, remote, nextId, nextMeeting>>
            /\ resp'.req.zoomCall = "none"
            /\ resp'.req.storeCall = "none"
       /\ tier = "TRIAL" /\ EventCount = 3 =>
            /\ \A r \in Reqs : req[r].pc = "idle" => req'[r].pc \notin {"c_zoom", "c_store"}
            /\ resp'.op = "create" /\ resp'.req.body.valid /\ resp'.req.pc = "idle" =>
                 /\ resp'.status = 403 /\ resp'.error = "Event limit exceeded"
                 /\ resp'.limit = 3 /\ resp'.value = 3
      ]_vars

\* TRIAL with three events was denied, and no meeting and no row were made.
C10_Witness ==
    /\ tier = "TRIAL" /\ resp.op = "create" /\ resp.error = "Event limit exceeded"
    /\ resp.limit = 3 /\ resp.value = 3 /\ EventCount = 3
    /\ nextMeeting = 2 /\ nextId = 2

C12_StoredWithinTierLimits ==
    \A id \in EventIds :
      events[id] # NoEvent =>
        LET limits == SUBSCRIPTION_LIMITS(tier)
            ms == events[id].endTime - events[id].startTime
        IN  /\ events[id].maxAttendees <= limits.maxAttendees
            /\ limits.maxDuration # -1 => ms <= limits.maxDuration * 60000

\* C13: every stored event ends after it starts.
C13_EndAfterStart ==
    \A id \in EventIds :
      events[id] # NoEvent => events[id].endTime > events[id].startTime

\* C14: getAccessToken returns the cached token only before the instant 300 s
\* ahead of the token's actual expiry, under any interleaving of the calls.
C14_NeverPastMargin ==
    returned # NoReturn /\ returned.cached =>
      now < returned.token.at + returned.token.expires_in * 1000 - 300 * 1000

\* C15: a create, update, delete or registration in which a store write threw
\* is answered with a failure (500) and does nothing after the write that threw;
\* an answer of success (200, 201) follows a store write that succeeded.  This
\* holds for a create whose Zoom meeting had been created before the write threw.
C15_StoreFailureNotMasked ==
    /\ \A r \in Reqs : req[r].storeCall # "threw"
    /\ resp.op \in {"create", "update", "delete", "register"} =>
         /\ resp.req.storeCall = "threw" => resp.status = 500
         /\ resp.status \in {200, 201} => resp.req.storeCall = "ok"

\* A create was answered 500 after Zoom had created the meeting and the store
\* write threw.
C15_Witness ==
    /\ resp.op = "create" /\ resp.req.zoomCall = "ok" /\ resp.req.storeCall = "threw"
    /\ resp.status = 500 /\ resp.req.zoomMeeting.id \in remote

\* C16: the update sent to Zoom carries the body's title as topic, its
\* description as agenda, its start as start_time, and, whenever the body carries
\* a start or an end, as duration the minutes, rounded up, from the event's
\* resulting start to its resulting end (the stored value for the one the body
\* does not carry).
C16_ZoomUpdateFields ==
    \A r \in Reqs :
      req[r].pc = "u_store" /\ req[r].zoomCall # "none" =>
        LET b == req[r].body
            start == IF b.startTime # -1 THEN b.startTime ELSE req[r].ev.startTime
            end == IF b.endTime # -1 THEN b.endTime ELSE req[r].ev.endTime
            minutes == CHOOSE n \in -1000..1000 :
                          n * 60000 >= end - start /\ (n - 1) * 60000 < end - start
        IN  /\ req[r].sent.topic = b.title
            /\ req[r].sent.agenda = b.description
            /\ req[r].sent.start_time = b.startTime
            /\ b.startTime # -1 \/ b.endTime # -1 => req[r].sent.duration = minutes

\* C17: when no request is in flight after a registration that passed the
\* capacity check has ended, with a success or with an error, the event's
\* currentAttendees is the number of its attendee rows.
C17_CounterIsRowCount ==
    /\ resp.op = "register" /\ resp.req.pc \in {"a_create", "a_incr"}
    /\ \A r \in Reqs : req[r].pc = "idle"
    /\ events[resp.req.id] # NoEvent
    => events[resp.req.id].currentAttendees = Cardinality(EventRows(resp.req.id))

====
